---- MODULE Spec2Model ----
(***************************************************************************)
(* FundBot (tgram): the campaign / payment state machine of app/repo.py    *)
(* as driven by the handlers of app/handlers.                              *)
(*                                                                         *)
(* The store holds three tables (users, campaigns, campaign_members).      *)
(* Every handler opens its own session; a session's writes reach the       *)
(* store at commit.  Spec runs the handlers one after another, each as one *)
(* step.  ConcSpec runs /new at its await points (roster snapshot, flush,  *)
(* commit) so that registrations, toggles and closes interleave with a     *)
(* creation in flight.  RosterSpec runs the registration conversation      *)
(* (/start and the name reply) with every kind of profile.  StatsSpec runs *)
(* /dash at its await points so that the other handlers interleave with    *)
(* the queries of campaign_stats.  NotifySpec runs the notification loop   *)
(* of /new one send at a time.  ArgsSpec runs /new on argument texts.      *)
(* ToggleSpec runs a payment callback at its await points (row load,       *)
(* commit) with other callbacks in between.                                *)
(***************************************************************************)
EXTENDS Integers, Sequences, FiniteSets, TLC

VARIABLES users, fsm, campaigns, members, camp_seq, task, returned, ret

vars == <<users, fsm, campaigns, members, camp_seq, task, returned, ret>>

-----------------------------------------------------------------------------
(* Bounds of the model *)

NumUsers == 3
MaxCampaigns == 2
MaxAmount == 1
MaxTime == 1
MaxArgLen == 4

-----------------------------------------------------------------------------
(* Values *)

NoneVal == "None"
NoTime == 0
NoCampaign == 0

UserIds == 1..NumUsers
FINANCIERS == {1, 2}
Amounts == (0 - 1)..MaxAmount
Times == 1..MaxTime
CallbackCampaignIds == 1..(MaxCampaigns + 1)
CallbackActions == {"mark", "unmark"}
Titles == {"Trip"}
ProfileUsernames == {"bob"}
ProfileNames == {"Tg"}
RosterUsernames == {NoneVal, "bob"}
RosterNames == {NoneVal, "X", "Y"}
Texts == {NoneVal, " A", "/status"}
FinancierConfigs == {FINANCIERS, {1}}
SendOutcomes == {"ok", "retry_after", "error"}

Truthy(s) == s # NoneVal /\ s # ""

strip(t) == IF t = " A" THEN "A" ELSE t

Range(s) == {s[i] : i \in DOMAIN s}

MinOf(S) == CHOOSE m \in S : \A x \in S : m <= x

MaxOf(S) == CHOOSE m \in S : \A x \in S : x <= m

RECURSIVE SortAsc(_)
SortAsc(S) == IF S = {} THEN <<>> ELSE <<MinOf(S)>> \o SortAsc(S \ {MinOf(S)})

RECURSIVE SortDesc(_)
SortDesc(S) == IF S = {} THEN <<>> ELSE <<MaxOf(S)>> \o SortDesc(S \ {MaxOf(S)})

-----------------------------------------------------------------------------
(* Command arguments as character sequences, and the string functions      *)
(* /new applies to them: str.strip(), str.split(" ", 1), int(),            *)
(* str.strip('"')                                                          *)

Chars == {"1", "-", " ", "\""}

RECURSIVE StringsOfLen(_)
StringsOfLen(n) ==
    IF n = 0 THEN {<<>>}
    ELSE {Append(t, c) : t \in StringsOfLen(n - 1), c \in Chars}

ArgStrings == UNION {StringsOfLen(n) : n \in 0..MaxArgLen}

DefaultTitle == <<"#">>

RECURSIVE lstrip_chars(_, _)
lstrip_chars(t, cs) ==
    IF t # <<>> /\ Head(t) \in cs THEN lstrip_chars(Tail(t), cs) ELSE t

RECURSIVE rstrip_chars(_, _)
rstrip_chars(t, cs) ==
    IF t # <<>> /\ t[Len(t)] \in cs
    THEN rstrip_chars(SubSeq(t, 1, Len(t) - 1), cs) ELSE t

strip_chars(t, cs) == rstrip_chars(lstrip_chars(t, cs), cs)

str_strip(t) == strip_chars(t, {" "})

(* t.split(" ", 1): <<t>> when t has no space, else the text before the    *)
(* first space and the text after it                                       *)
str_split_once(t) ==
    LET sp == {k \in 1..Len(t) : t[k] = " "}
    IN  IF sp = {} THEN <<t>>
        ELSE <<SubSeq(t, 1, MinOf(sp) - 1), SubSeq(t, MinOf(sp) + 1, Len(t))>>

digits_of(t) == IF t # <<>> /\ Head(t) = "-" THEN Tail(t) ELSE t

(* int(t) succeeds on an optional sign followed by at least one digit *)
int_ok(t) == digits_of(t) # <<>> /\ \A k \in 1..Len(digits_of(t)) : digits_of(t)[k] = "1"

RECURSIVE digits_value(_)
digits_value(d) ==
    IF d = <<>> THEN 0 ELSE 10 * digits_value(SubSeq(d, 1, Len(d) - 1)) + 1

int_value(t) ==
    IF t # <<>> /\ Head(t) = "-" THEN 0 - digits_value(digits_of(t))
    ELSE digits_value(t)

title_of(parts) ==
    IF Len(parts) > 1 THEN strip_chars(str_strip(parts[2]), {"\""}) ELSE DefaultTitle

-----------------------------------------------------------------------------
(* app/repo.py: reads *)

list_user_ids_desc(us) == SortDesc(DOMAIN us)

list_user_ids(us) == SortAsc(DOMAIN us)

get_active_campaign_oldest(cs) ==
    LET act == {c \in DOMAIN cs : cs[c].is_active}
    IN  IF act = {} THEN NoCampaign ELSE MinOf(act)

get_active_campaign(cs) ==
    LET act == {c \in DOMAIN cs : cs[c].is_active}
    IN  IF act = {} THEN NoCampaign ELSE MaxOf(act)

member_rows(ms, cid, uid) == {m \in ms : m.campaign_id = cid /\ m.user_id = uid}

(* The two count queries of campaign_stats *)
count_members(ms, cid) == Cardinality({m \in ms : m.campaign_id = cid})

count_paid_any_campaign(ms, cid) == Cardinality({m \in ms : m.has_paid})

count_paid(ms, cid) == Cardinality({m \in ms : m.campaign_id = cid /\ m.has_paid})

(* campaign_stats with both queries answered from the same committed state *)
campaign_stats(ms, cid) ==
    LET total == count_members(ms, cid)
        paid  == count_paid(ms, cid)
    IN  <<total, paid, total - paid>>

list_paid_unpaid(ms, cid) ==
    <<{m.user_id : m \in {r \in ms : r.campaign_id = cid /\ r.has_paid}},
      {m.user_id : m \in {r \in ms : r.campaign_id = cid /\ ~r.has_paid}}>>

(* An Optional value is a sequence: <<>> is None, <<v>> is the value v *)
Nothing == <<>>

Some(v) == <<v>>

user_status_any_campaign(us, cs, ms, user_id) ==
    LET camp == get_active_campaign(cs)
        mine == {c \in DOMAIN cs : member_rows(ms, c, user_id) # {}}
    IN  IF camp = NoCampaign
        THEN [camp |-> NoCampaign, member |-> {}, user |-> Nothing, per_user |-> Nothing]
        ELSE [camp |-> camp,
              member |-> member_rows(ms, camp, user_id),
              user |-> IF user_id \in DOMAIN us THEN Some(us[user_id]) ELSE Nothing,
              per_user |-> IF mine # {} THEN Some(cs[camp].per_user_amount) ELSE Nothing]

user_status(us, cs, ms, user_id) ==
    LET camp == get_active_campaign(cs)
    IN  IF camp = NoCampaign
        THEN [camp |-> NoCampaign, member |-> {}, user |-> Nothing, per_user |-> Nothing]
        ELSE [camp |-> camp,
              member |-> member_rows(ms, camp, user_id),
              user |-> IF user_id \in DOMAIN us THEN Some(us[user_id]) ELSE Nothing,
              per_user |-> IF member_rows(ms, camp, user_id) # {}
                           THEN Some(cs[camp].per_user_amount) ELSE Nothing]

(* app/handlers/common.py: the role /status reports, "" when it reports none *)
status_role(us, cs, ms, user_id) ==
    LET user == user_status(us, cs, ms, user_id).user
    IN  IF user = Nothing THEN ""
        ELSE IF user[1].is_financier THEN "financier" ELSE "participant"

(* app/handlers/common.py: whether /help lists the coordinator commands *)
help_is_financier(us, cs, ms, user_id) ==
    LET user == user_status(us, cs, ms, user_id).user
    IN  user # Nothing /\ user[1].is_financier

-----------------------------------------------------------------------------
(* app/repo.py: upsert_user *)

upsert_user_overwrite(us, tg_id, username, full_name, financiers) ==
    IF tg_id \notin DOMAIN us
    THEN [i \in DOMAIN us \cup {tg_id} |->
            IF i = tg_id
            THEN [username |-> username, full_name |-> full_name,
                  is_financier |-> (tg_id \in financiers)]
            ELSE us[i]]
    ELSE [us EXCEPT ![tg_id] =
            [username |-> username,
             full_name |-> IF Truthy(full_name) THEN full_name ELSE us[tg_id].full_name,
             is_financier |-> IF tg_id \in financiers THEN TRUE
                              ELSE us[tg_id].is_financier]]

upsert_user_demote(us, tg_id, username, full_name, financiers) ==
    IF tg_id \notin DOMAIN us
    THEN [i \in DOMAIN us \cup {tg_id} |->
            IF i = tg_id
            THEN [username |-> username, full_name |-> full_name,
                  is_financier |-> (tg_id \in financiers)]
            ELSE us[i]]
    ELSE [us EXCEPT ![tg_id] =
            [username |-> username,
             full_name |-> IF Truthy(full_name) /\ ~Truthy(us[tg_id].full_name)
                           THEN full_name ELSE us[tg_id].full_name,
             is_financier |-> (tg_id \in financiers)]]

upsert_user(us, tg_id, username, full_name, financiers) ==
    IF tg_id \notin DOMAIN us
    THEN [i \in DOMAIN us \cup {tg_id} |->
            IF i = tg_id
            THEN [username |-> username, full_name |-> full_name,
                  is_financier |-> (tg_id \in financiers)]
            ELSE us[i]]
    ELSE [us EXCEPT ![tg_id] =
            [username |-> username,
             full_name |-> IF Truthy(full_name) /\ ~Truthy(us[tg_id].full_name)
                           THEN full_name ELSE us[tg_id].full_name,
             is_financier |-> IF tg_id \in financiers THEN TRUE
                              ELSE us[tg_id].is_financier]]

-----------------------------------------------------------------------------
(* app/repo.py: create_campaign *)

participants_with_creator(ids, creator_id) == ids

participants(ids, creator_id) == SelectSeq(ids, LAMBDA uid : uid # creator_id)

per_user_floor(total_amount, n) == total_amount \div n

per_user_plus_one(total_amount, n) == (total_amount + n) \div n

per_user_amount(total_amount, n) == (total_amount + n - 1) \div n

participant_count(user_ids) == IF Len(user_ids) > 1 THEN Len(user_ids) ELSE 1

new_campaign_row(title, total_amount, per_user, creator_id) ==
    [title |-> title, total_amount |-> total_amount, per_user_amount |-> per_user,
     created_by |-> creator_id, is_active |-> TRUE]

new_member_row(cid, uid) ==
    [campaign_id |-> cid, user_id |-> uid, has_paid |-> FALSE, paid_at |-> NoTime]

flush_visible_autocommit(cs, cid, row) ==
    [c \in DOMAIN cs \cup {cid} |-> IF c = cid THEN row ELSE cs[c]]

flush_visible(cs, cid, row) == cs

commit_campaign(cs, cid, row) ==
    [c \in DOMAIN cs \cup {cid} |-> IF c = cid THEN row ELSE cs[c]]

commit_members(ms, cid, user_ids) ==
    ms \cup {new_member_row(cid, user_ids[i]) : i \in DOMAIN user_ids}

-----------------------------------------------------------------------------
(* app/repo.py: toggle_payment, close_active_campaign *)

toggle_rows_upsert(ms, cid, uid, mark, now) ==
    (ms \ member_rows(ms, cid, uid)) \cup
        {[campaign_id |-> cid, user_id |-> uid, has_paid |-> mark,
          paid_at |-> IF mark THEN now ELSE NoTime]}

toggle_rows_delete_on_unmark(ms, cid, uid, mark, now) ==
    IF mark
    THEN (ms \ member_rows(ms, cid, uid)) \cup
           {[m EXCEPT !.has_paid = mark, !.paid_at = now] : m \in member_rows(ms, cid, uid)}
    ELSE ms \ member_rows(ms, cid, uid)

toggle_rows_keep_time(ms, cid, uid, mark, now) ==
    (ms \ member_rows(ms, cid, uid)) \cup
        {[m EXCEPT !.has_paid = mark,
                   !.paid_at = IF mark THEN now ELSE m.paid_at]
           : m \in member_rows(ms, cid, uid)}

toggle_rows_frozen(ms, cid, uid, mark, now) ==
    IF cid \in DOMAIN campaigns /\ ~campaigns[cid].is_active
    THEN ms
    ELSE (ms \ member_rows(ms, cid, uid)) \cup
            {[m EXCEPT !.has_paid = mark,
                       !.paid_at = IF mark THEN now ELSE NoTime]
               : m \in member_rows(ms, cid, uid)}

toggle_rows_whole_campaign(ms, cid, uid, mark, now) ==
    IF member_rows(ms, cid, uid) = {} THEN ms
    ELSE {m \in ms : m.campaign_id # cid} \cup
            {[m EXCEPT !.has_paid = mark,
                       !.paid_at = IF mark THEN now ELSE NoTime]
               : m \in {r \in ms : r.campaign_id = cid}}

toggle_rows_flag_only(ms, cid, uid, mark, now) ==
    (ms \ member_rows(ms, cid, uid)) \cup
        {[m EXCEPT !.has_paid = mark] : m \in member_rows(ms, cid, uid)}

toggle_rows(ms, cid, uid, mark, now) ==
    (ms \ member_rows(ms, cid, uid)) \cup
        {[m EXCEPT !.has_paid = mark,
                   !.paid_at = IF mark THEN now ELSE NoTime]
           : m \in member_rows(ms, cid, uid)}

toggle_ok(ms, cid, uid) == member_rows(ms, cid, uid) # {}

close_rows_reopen(cs) ==
    IF get_active_campaign(cs) = NoCampaign
    THEN IF DOMAIN cs = {} THEN cs
         ELSE [cs EXCEPT ![MaxOf(DOMAIN cs)].is_active = TRUE]
    ELSE [cs EXCEPT ![get_active_campaign(cs)].is_active = FALSE]

close_rows(cs) ==
    IF get_active_campaign(cs) = NoCampaign THEN cs
    ELSE [cs EXCEPT ![get_active_campaign(cs)].is_active = FALSE]

close_ok(cs) == get_active_campaign(cs) # NoCampaign

-----------------------------------------------------------------------------
(* app/handlers/admin.py: is_financier *)

is_financier_anyone(user_id) == user_id \in UserIds

is_financier(user_id) == user_id \in FINANCIERS

IdleTask == [pc |-> "idle"]

-----------------------------------------------------------------------------
(* Initial state: empty tables, empty FSM storage, no handler in flight *)

Init ==
    /\ users = <<>>
    /\ fsm = [u \in UserIds |-> "idle"]
    /\ campaigns = <<>>
    /\ members = {}
    /\ camp_seq = 1
    /\ task = IdleTask
    /\ returned = <<>>
    /\ ret = [op |-> "init"]

-----------------------------------------------------------------------------
(* app/handlers/common.py *)

(* /start under the coordinator set the running process was configured with *)
start_handler_cfg(u, username, full_name, financiers) ==
    LET us == upsert_user(users, u, username, full_name, financiers)
    IN  /\ users' = us
        /\ fsm' = IF ~us[u].is_financier /\ ~Truthy(us[u].full_name)
                  THEN [fsm EXCEPT ![u] = "awaiting_name"]
                  ELSE fsm
        /\ ret' = [op |-> "start", uid |-> u, full_name |-> full_name,
                   listed |-> (u \in financiers)]
        /\ UNCHANGED <<campaigns, members, camp_seq, task, returned>>

start_handler(u, username, full_name) ==
    start_handler_cfg(u, username, full_name, FINANCIERS)

(* a message that is not the text /start, received in awaiting_name; a     *)
(* message without text makes message.text.strip() raise                   *)
process_name(u, text) ==
    /\ fsm[u] = "awaiting_name"
    /\ IF text = NoneVal
       THEN /\ ret' = [op |-> "name", status |-> "error"]
            /\ UNCHANGED <<users, fsm>>
       ELSE /\ users' = IF u \in DOMAIN users
                        THEN [users EXCEPT ![u].full_name = strip(text)]
                        ELSE users
            /\ fsm' = [fsm EXCEPT ![u] = "idle"]
            /\ ret' = [op |-> "name", status |-> "saved"]
    /\ UNCHANGED <<campaigns, members, camp_seq, task, returned>>

-----------------------------------------------------------------------------
(* app/handlers/admin.py: /new *)

created_record(user_ids, per_user, roster, creator, total) ==
    [user_ids |-> user_ids, per_user |-> per_user, roster |-> roster,
     creator |-> creator, total |-> total]

record_return(rs, cid, rec) ==
    [c \in DOMAIN rs \cup {cid} |-> IF c = cid THEN rec ELSE rs[c]]

new_denied(u) ==
    /\ fsm[u] = "idle"
    /\ ~is_financier(u)
    /\ ret' = [op |-> "new", status |-> "denied"]
    /\ UNCHANGED <<users, fsm, campaigns, members, camp_seq, task, returned>>

(* create_campaign called by /new and run to its commit *)
create_campaign_call(u, total, title) ==
    /\ LET user_ids == participants(list_user_ids(users), u)
           per_user == per_user_amount(total, participant_count(user_ids))
           row      == new_campaign_row(title, total, per_user, u)
       IN  IF u \notin DOMAIN users
           THEN /\ ret' = [op |-> "new", status |-> "error"]
                /\ UNCHANGED <<campaigns, members, returned>>
           ELSE /\ campaigns' = commit_campaign(flush_visible(campaigns, camp_seq, row),
                                                camp_seq, row)
                /\ members' = commit_members(members, camp_seq, user_ids)
                /\ returned' = record_return(returned, camp_seq,
                                   created_record(user_ids, per_user, DOMAIN users, u, total))
                /\ ret' = [op |-> "new", status |-> "created"]
    /\ camp_seq' = camp_seq + 1

(* /new run without interleaving: the whole of create_campaign in one step *)
new_campaign_handler(u, total, title) ==
    /\ fsm[u] = "idle"
    /\ is_financier(u)
    /\ camp_seq <= MaxCampaigns
    /\ create_campaign_call(u, total, title)
    /\ UNCHANGED <<users, fsm, task>>

(* /new followed by its notification loop, one send per step.  The loop   *)
(* goes through users_ids with the outcome of each send chosen by the      *)
(* messenger: delivered, rejected with TelegramRetryAfter, or failed with  *)
(* another exception.  The pauses (retry_after, the batch pause) change no *)
(* state.                                                                  *)
new_create_notify(u, total, title) ==
    /\ fsm[u] = "idle"
    /\ is_financier(u)
    /\ task.pc = "idle"
    /\ camp_seq <= MaxCampaigns
    /\ create_campaign_call(u, total, title)
    /\ task' = IF u \in DOMAIN users
               THEN [pc |-> "notify",
                     user_ids |-> participants(list_user_ids(users), u),
                     i |-> 1, sent |-> 0, attempted |-> <<>>,
                     delivered |-> {}, throttled |-> {}]
               ELSE task
    /\ UNCHANGED <<users, fsm>>

next_after_failure_abort(i, n) == n + 1

next_after_failure(i, n) == i + 1

notify_send(outcome) ==
    /\ task.pc = "notify"
    /\ task.i <= Len(task.user_ids)
    /\ LET uid == task.user_ids[task.i]
           n == Len(task.user_ids)
       IN  task' = [task EXCEPT
                     !.attempted = Append(@, uid),
                     !.sent = IF outcome = "ok" THEN @ + 1 ELSE @,
                     !.delivered = IF outcome = "ok" THEN @ \cup {uid} ELSE @,
                     !.throttled = IF outcome = "retry_after" THEN @ \cup {uid} ELSE @,
                     !.i = IF outcome = "ok" THEN @ + 1
                           ELSE next_after_failure(@, n)]
    /\ UNCHANGED <<users, fsm, campaigns, members, camp_seq, returned, ret>>

notify_finish ==
    /\ task.pc = "notify"
    /\ task.i > Len(task.user_ids)
    /\ ret' = [op |-> "new", status |-> "notified", sent |-> task.sent,
               user_ids |-> task.user_ids, attempted |-> task.attempted,
               delivered |-> task.delivered, throttled |-> task.throttled]
    /\ task' = IdleTask
    /\ UNCHANGED <<users, fsm, campaigns, members, camp_seq, returned>>

(* /new with its argument text: privilege check, argument parsing, then  *)
(* create_campaign                                                         *)
new_command(u, command_args) ==
    /\ fsm[u] = "idle"
    /\ camp_seq <= MaxCampaigns
    /\ LET args == str_strip(command_args)
           parts == str_split_once(args)
       IN  IF ~is_financier(u)
           THEN /\ ret' = [op |-> "new", status |-> "denied"]
                /\ UNCHANGED <<campaigns, members, camp_seq, returned>>
           ELSE IF args = <<>>
           THEN /\ ret' = [op |-> "new", status |-> "usage"]
                /\ UNCHANGED <<campaigns, members, camp_seq, returned>>
           ELSE IF ~int_ok(parts[1])
           THEN /\ ret' = [op |-> "new", status |-> "not_a_number"]
                /\ UNCHANGED <<campaigns, members, camp_seq, returned>>
           ELSE create_campaign_call(u, int_value(parts[1]), title_of(parts))
    /\ UNCHANGED <<users, fsm, task>>

(* /new at its await points: list_user_ids, flush, commit *)
new_snapshot(u, total, title) ==
    /\ fsm[u] = "idle"
    /\ is_financier(u)
    /\ task.pc = "idle"
    /\ camp_seq <= MaxCampaigns
    /\ LET user_ids == participants(list_user_ids(users), u)
       IN  task' = [pc |-> "flush", creator |-> u, total |-> total, title |-> title,
                    roster |-> DOMAIN users,
                    user_ids |-> user_ids,
                    per_user |-> per_user_amount(total, participant_count(user_ids))]
    /\ ret' = [op |-> "new", status |-> "snapshot"]
    /\ UNCHANGED <<users, fsm, campaigns, members, camp_seq, returned>>

new_flush ==
    /\ task.pc = "flush"
    /\ task.creator \in DOMAIN users
    /\ task' = [task EXCEPT !.pc = "commit"] @@ [camp_id |-> camp_seq]
    /\ camp_seq' = camp_seq + 1
    /\ campaigns' = flush_visible(campaigns, camp_seq,
                        new_campaign_row(task.title, task.total, task.per_user, task.creator))
    /\ ret' = [op |-> "new", status |-> "flushed"]
    /\ UNCHANGED <<users, fsm, members, returned>>

new_flush_fails ==
    /\ task.pc = "flush"
    /\ task.creator \notin DOMAIN users
    /\ task' = IdleTask
    /\ camp_seq' = camp_seq + 1
    /\ ret' = [op |-> "new", status |-> "error"]
    /\ UNCHANGED <<users, fsm, campaigns, members, returned>>

new_commit ==
    /\ task.pc = "commit"
    /\ campaigns' = commit_campaign(campaigns, task.camp_id,
                        new_campaign_row(task.title, task.total, task.per_user, task.creator))
    /\ members' = commit_members(members, task.camp_id, task.user_ids)
    /\ returned' = record_return(returned, task.camp_id,
                       created_record(task.user_ids, task.per_user, task.roster,
                                      task.creator, task.total))
    /\ task' = IdleTask
    /\ ret' = [op |-> "new", status |-> "created"]
    /\ UNCHANGED <<users, fsm, camp_seq>>

-----------------------------------------------------------------------------
(* app/handlers/admin.py: /close *)

close_handler(u) ==
    /\ fsm[u] = "idle"
    /\ IF ~is_financier(u)
       THEN /\ ret' = [op |-> "close", status |-> "denied"]
            /\ UNCHANGED campaigns
       ELSE /\ campaigns' = close_rows(campaigns)
            /\ ret' = [op |-> "close", status |-> "done", ok |-> close_ok(campaigns)]
    /\ UNCHANGED <<users, fsm, members, camp_seq, task, returned>>

-----------------------------------------------------------------------------
(* app/handlers/admin.py: /dash at its await points.  The handler resolves *)
(* the active campaign, then campaign_stats issues its two count queries   *)
(* one after the other, then the lists are read and the summary is sent.   *)
(* task.paid_then is the paid count the store held when the first query    *)
(* ran; the handler never reads it.                                        *)

dash_begin(u) ==
    /\ fsm[u] = "idle"
    /\ task.pc = "idle"
    /\ LET camp == get_active_campaign(campaigns)
       IN  IF ~is_financier(u)
           THEN /\ ret' = [op |-> "dash", status |-> "denied"]
                /\ UNCHANGED task
           ELSE IF camp = NoCampaign
           THEN /\ ret' = [op |-> "dash", status |-> "none"]
                /\ UNCHANGED task
           ELSE /\ task' = [pc |-> "count_total", camp_id |-> camp]
                /\ ret' = [op |-> "dash", status |-> "running"]
    /\ UNCHANGED <<users, fsm, campaigns, members, camp_seq, returned>>

dash_count_total ==
    /\ task.pc = "count_total"
    /\ task' = [pc |-> "count_paid", camp_id |-> task.camp_id,
                total |-> count_members(members, task.camp_id),
                paid_then |-> count_paid(members, task.camp_id)]
    /\ UNCHANGED <<users, fsm, campaigns, members, camp_seq, returned, ret>>

dash_count_paid ==
    /\ task.pc = "count_paid"
    /\ LET total == task.total
           paid == count_paid(members, task.camp_id)
           camp == campaigns[task.camp_id]
       IN  ret' = [op |-> "dash", status |-> "shown", camp_id |-> task.camp_id,
                   total |-> total, paid_count |-> paid, unpaid_count |-> total - paid,
                   paid_then |-> task.paid_then,
                   lists |-> list_paid_unpaid(members, task.camp_id),
                   remain |-> MaxOf({0, camp.total_amount - paid * camp.per_user_amount})]
    /\ task' = IdleTask
    /\ UNCHANGED <<users, fsm, campaigns, members, camp_seq, returned>>

-----------------------------------------------------------------------------
(* app/handlers/payments.py *)

handle_payment_callback(u, cid, action, now) ==
    LET mark == (action = "mark")
    IN  /\ members' = toggle_rows(members, cid, u, mark, now)
        /\ ret' = [op |-> "pay", ok |-> toggle_ok(members, cid, u)]
        /\ UNCHANGED <<users, fsm, campaigns, camp_seq, task, returned>>

(* toggle_payment at its await points: the SELECT that loads the row into *)
(* the session, then the commit.  At commit the session writes the columns *)
(* whose assigned value differs from the value it loaded, to the row as it *)
(* is then in the store; it writes nothing when no column differs.  The    *)
(* clock reading assigned to paid_at never equals a stored time.           *)
has_paid_changed(seen, mark) == mark # seen.has_paid

paid_at_changed(seen, mark) == mark \/ seen.paid_at # NoTime

update_row(m, seen, mark, now) ==
    [m EXCEPT !.has_paid = IF has_paid_changed(seen, mark) THEN mark ELSE @,
              !.paid_at = IF paid_at_changed(seen, mark)
                          THEN (IF mark THEN now ELSE NoTime) ELSE @]

toggle_read(u, cid, action) ==
    /\ task.pc = "idle"
    /\ IF member_rows(members, cid, u) = {}
       THEN /\ ret' = [op |-> "pay", ok |-> FALSE]
            /\ UNCHANGED task
       ELSE /\ \E seen \in member_rows(members, cid, u) :
                  task' = [pc |-> "toggle_commit", cid |-> cid, uid |-> u,
                           mark |-> (action = "mark"), seen |-> seen]
            /\ ret' = [op |-> "pay", ok |-> TRUE, status |-> "loaded"]
    /\ UNCHANGED <<users, fsm, campaigns, members, camp_seq, returned>>

toggle_commit(now) ==
    /\ task.pc = "toggle_commit"
    /\ members' = (members \ member_rows(members, task.cid, task.uid)) \cup
                     {update_row(m, task.seen, task.mark, now)
                        : m \in member_rows(members, task.cid, task.uid)}
    /\ ret' = [op |-> "pay", ok |-> TRUE, status |-> "committed"]
    /\ task' = IdleTask
    /\ UNCHANGED <<users, fsm, campaigns, camp_seq, returned>>

-----------------------------------------------------------------------------

(* Handlers run one after another *)
Next ==
    \/ \E u \in UserIds, un \in ProfileUsernames, fn \in ProfileNames :
          start_handler(u, un, fn)
    \/ \E u \in UserIds : new_denied(u)
    \/ \E u \in UserIds, total \in Amounts, title \in Titles :
          new_campaign_handler(u, total, title)
    \/ \E u \in UserIds : close_handler(u)
    \/ \E u \in UserIds, cid \in CallbackCampaignIds, a \in CallbackActions, now \in Times :
          handle_payment_callback(u, cid, a, now)

Spec == Init /\ [][Next]_vars

(* Registration events only: /start with any profile, under any of the    *)
(* coordinator sets the process may be started with, and name replies      *)
RosterNext ==
    \/ \E u \in UserIds, un \in RosterUsernames, fn \in RosterNames,
          fins \in FinancierConfigs :
          start_handler_cfg(u, un, fn, fins)
    \/ \E u \in UserIds, t \in Texts : process_name(u, t)

RosterSpec == Init /\ [][RosterNext]_vars

(* A payment callback at its await points, with the other handlers and   *)
(* other payment callbacks running between its read and its commit         *)
ToggleNext ==
    \/ \E u \in UserIds, un \in ProfileUsernames, fn \in ProfileNames :
          start_handler(u, un, fn)
    \/ \E u \in UserIds, title \in Titles :
          new_campaign_handler(u, MaxAmount, title)
    \/ \E u \in UserIds, cid \in CallbackCampaignIds, a \in CallbackActions, now \in Times :
          handle_payment_callback(u, cid, a, now)
    \/ \E u \in UserIds, cid \in CallbackCampaignIds, a \in CallbackActions :
          toggle_read(u, cid, a)
    \/ \E now \in Times : toggle_commit(now)

ToggleSpec == Init /\ [][ToggleNext]_vars

(* /new with every argument text of the bounded alphabet *)
ArgsNext ==
    \/ \E u \in UserIds, un \in ProfileUsernames, fn \in ProfileNames :
          start_handler(u, un, fn)
    \/ \E u \in UserIds, a \in ArgStrings : new_command(u, a)

ArgsSpec == Init /\ [][ArgsNext]_vars

(* Handlers interleave with the notification loop of a /new *)
NotifyNext ==
    \/ \E u \in UserIds, un \in ProfileUsernames, fn \in ProfileNames :
          start_handler(u, un, fn)
    \/ \E u \in UserIds : new_denied(u)
    \/ \E u \in UserIds, total \in Amounts, title \in Titles :
          new_create_notify(u, total, title)
    \/ \E outcome \in SendOutcomes : notify_send(outcome)
    \/ notify_finish
    \/ \E u \in UserIds : close_handler(u)
    \/ \E u \in UserIds, cid \in CallbackCampaignIds, a \in CallbackActions, now \in Times :
          handle_payment_callback(u, cid, a, now)

NotifySpec == Init /\ [][NotifyNext]_vars

(* Handlers interleave with a /dash in flight *)
StatsNext ==
    \/ \E u \in UserIds, un \in ProfileUsernames, fn \in ProfileNames :
          start_handler(u, un, fn)
    \/ \E u \in UserIds, total \in Amounts, title \in Titles :
          new_campaign_handler(u, total, title)
    \/ \E u \in UserIds : close_handler(u)
    \/ \E u \in UserIds, cid \in CallbackCampaignIds, a \in CallbackActions, now \in Times :
          handle_payment_callback(u, cid, a, now)
    \/ \E u \in UserIds : dash_begin(u)
    \/ dash_count_total
    \/ dash_count_paid

StatsSpec == Init /\ [][StatsNext]_vars

(* Handlers interleave with a /new in flight *)
NextConc ==
    \/ \E u \in UserIds, un \in ProfileUsernames, fn \in ProfileNames :
          start_handler(u, un, fn)
    \/ \E u \in UserIds : new_denied(u)
    \/ \E u \in UserIds, total \in Amounts, title \in Titles :
          new_snapshot(u, total, title)
    \/ new_flush
    \/ new_flush_fails
    \/ new_commit
    \/ \E u \in UserIds : close_handler(u)
    \/ \E u \in UserIds, cid \in CallbackCampaignIds, a \in CallbackActions, now \in Times :
          handle_payment_callback(u, cid, a, now)

ConcSpec == Init /\ [][NextConc]_vars

-----------------------------------------------------------------------------
(* Helpers of the properties *)

ActiveCampaigns == {c \in DOMAIN campaigns : campaigns[c].is_active}

RowsOf(ms, cid) == {m \in ms : m.campaign_id = cid}

KeysOf(ms, cid) == {m.user_id : m \in RowsOf(ms, cid)}

RosterCount(c) ==
    LET k == Cardinality(returned[c].roster \ {returned[c].creator})
    IN  IF k > 1 THEN k ELSE 1

AllPaid(cid) == \A m \in RowsOf(members, cid) : m.has_paid

Collected(cid) ==
    Cardinality({m \in RowsOf(members, cid) : m.has_paid}) * campaigns[cid].per_user_amount

-----------------------------------------------------------------------------
(* C1: in every reachable state at most one campaign has is_active = TRUE. *)
(* Violated: /new never deactivates the campaign that is already active.   *)
C1_AtMostOneActive == Cardinality(ActiveCampaigns) <= 1

(* C2 as written: for total_amount >= 0 and n = max(roster minus creator, 1), *)
(* per_user_amount * n >= total_amount and per_user_amount * (n - 1) <        *)
(* total_amount.  The second inequality fails, e.g. total 1 among n = 2.      *)
C2_ShareCeilingOriginal ==
    \A c \in DOMAIN returned :
        returned[c].total >= 0 =>
            /\ campaigns[c].per_user_amount * RosterCount(c) >= returned[c].total
            /\ campaigns[c].per_user_amount * (RosterCount(c) - 1) < returned[c].total

(* C2 amended: for total_amount >= 0 and n = max(roster minus creator, 1), *)
(* per_user_amount * n >= total_amount and (per_user_amount - 1) * n <     *)
(* total_amount: the share is the least integer whose n-fold covers the    *)
(* total.                                                                  *)
C2_ShareCeiling ==
    \A c \in DOMAIN returned :
        returned[c].total >= 0 =>
            /\ campaigns[c].per_user_amount = returned[c].per_user
            /\ campaigns[c].total_amount = returned[c].total
            /\ campaigns[c].per_user_amount * RosterCount(c) >= returned[c].total
            /\ (campaigns[c].per_user_amount - 1) * RosterCount(c) < returned[c].total

C2_Witness ==
    \E c \in DOMAIN returned :
        /\ returned[c].total = 1
        /\ RosterCount(c) = 2
        /\ campaigns[c].per_user_amount = 1

(* C3 as written: for every campaign, once all its membership rows are paid, *)
(* paid rows * per_user_amount >= total_amount, the campaign created from an *)
(* empty roster included.  Violated by a campaign with no rows and total > 0.*)
C3_NoShortfallOriginal ==
    \A c \in DOMAIN campaigns :
        AllPaid(c) => Collected(c) >= campaigns[c].total_amount

(* C3 amended: for every campaign that has at least one membership row, once *)
(* all of its rows are paid, paid rows * per_user_amount >= total_amount.    *)
C3_NoShortfall ==
    \A c \in DOMAIN campaigns :
        (RowsOf(members, c) # {} /\ AllPaid(c)) =>
            Collected(c) >= campaigns[c].total_amount

C3_Witness ==
    \E c \in DOMAIN campaigns :
        /\ Cardinality(RowsOf(members, c)) = 2
        /\ AllPaid(c)
        /\ campaigns[c].total_amount = 1
        /\ Collected(c) = 2

(* C4: no membership row of a campaign belongs to the campaign's creator, in *)
(* the state create_campaign leaves and in every later state; the returned   *)
(* participant list does not contain the creator either.                     *)
C4_CreatorExcluded ==
    /\ \A m \in members :
          m.campaign_id \in DOMAIN campaigns /\
          campaigns[m.campaign_id].created_by # m.user_id
    /\ \A c \in DOMAIN returned :
          returned[c].creator \notin Range(returned[c].user_ids)

C4_Witness ==
    \E c \in DOMAIN returned :
        /\ returned[c].creator \in returned[c].roster
        /\ Cardinality(RowsOf(members, c)) = 2
        /\ ret.op = "pay"

(* C5: the list returned by create_campaign is strictly ascending (so without *)
(* duplicates), is exactly the set of users with a membership row in the new  *)
(* campaign, which is the roster at the snapshot minus the creator; and every *)
(* row a creation inserts has has_paid = FALSE and no paid_at.                *)
C5_ParticipantList ==
    /\ [](\A c \in DOMAIN returned :
            LET ids == returned[c].user_ids
            IN  /\ \A i \in 1..Len(ids) : \A j \in 1..Len(ids) : i < j => ids[i] < ids[j]
                /\ Range(ids) = KeysOf(members, c)
                /\ Cardinality(RowsOf(members, c)) = Len(ids)
                /\ Range(ids) = returned[c].roster \ {returned[c].creator})
    /\ [][\A m \in members' :
            m.campaign_id \notin DOMAIN campaigns =>
                (m.has_paid = FALSE /\ m.paid_at = NoTime)]_vars

C5_Witness ==
    \E c \in DOMAIN returned :
        /\ Len(returned[c].user_ids) = 2
        /\ ret.op = "new" /\ ret.status = "created"
        /\ DOMAIN users # returned[c].roster
        /\ \A m \in RowsOf(members, c) : ~m.has_paid

(* C6: creation is atomic.  For every campaign create_campaign returned,     *)
(* campaign_stats reports total_members = length of the returned list; and   *)
(* whenever a campaign row is visible in the store, the membership rows      *)
(* visible with it are all the rows of the participant list its creating     *)
(* session computed, never a part of them, whatever interleaves.             *)
C6_AtomicCreation ==
    /\ \A c \in DOMAIN returned :
          campaign_stats(members, c)[1] = Len(returned[c].user_ids)
    /\ \A c \in DOMAIN campaigns :
          IF c \in DOMAIN returned
          THEN KeysOf(members, c) = Range(returned[c].user_ids)
          ELSE /\ task.pc = "commit"
               /\ task.camp_id = c
               /\ KeysOf(members, c) = Range(task.user_ids)
    /\ \A m \in members : m.campaign_id \in DOMAIN campaigns

C6_Witness ==
    /\ task.pc = "commit"
    /\ Len(task.user_ids) = 2
    /\ task.camp_id \notin DOMAIN campaigns
    /\ DOMAIN users # task.roster
    /\ ret.op = "pay" /\ ~ret.ok

(* C7: the membership rows of an existing campaign are fixed: no step adds a *)
(* row to it or removes one from it; a step changes at most has_paid and     *)
(* paid_at of rows that exist.                                               *)
C7_MembershipFixed ==
    [][\A c \in DOMAIN campaigns :
          /\ c \in DOMAIN campaigns'
          /\ KeysOf(members', c) = KeysOf(members, c)
          /\ Cardinality(RowsOf(members', c)) = Cardinality(RowsOf(members, c))]_vars

C7_Witness ==
    \E c \in DOMAIN returned :
        /\ RowsOf(members, c) # {}
        /\ DOMAIN users # returned[c].roster
        /\ ~campaigns[c].is_active
        /\ \E d \in DOMAIN returned : d > c
        /\ \E m \in RowsOf(members, c) : m.has_paid
        /\ \E m \in RowsOf(members, c) : ~m.has_paid

(* C8: a payment callback for a (campaign, user) pair that has no membership *)
(* row answers failure (toggle_payment returned FALSE) and leaves every      *)
(* table as it was: no row changes and no row is created.                    *)
C8_ToggleNonMember ==
    [][\A u \in UserIds, cid \in CallbackCampaignIds, a \in CallbackActions, now \in Times :
          (member_rows(members, cid, u) = {} /\ handle_payment_callback(u, cid, a, now)) =>
              /\ ret'.op = "pay" /\ ret'.ok = FALSE
              /\ members' = members
              /\ campaigns' = campaigns
              /\ users' = users]_vars

C8_Witness ==
    /\ ret.op = "pay" /\ ~ret.ok
    /\ \E c \in DOMAIN returned :
          /\ RowsOf(members, c) # {}
          /\ DOMAIN users # returned[c].roster

(* C9: a payment callback for an existing membership answers success         *)
(* (toggle_payment returned TRUE) and leaves that row with has_paid = mark   *)
(* and paid_at set iff mark, whatever the row held before; every other row   *)
(* is unchanged.                                                             *)
C9_ToggleMember ==
    [][\A u \in UserIds, cid \in CallbackCampaignIds, a \in CallbackActions, now \in Times :
          (member_rows(members, cid, u) # {} /\ handle_payment_callback(u, cid, a, now)) =>
              /\ ret'.op = "pay" /\ ret'.ok = TRUE
              /\ Cardinality(member_rows(members', cid, u)) = 1
              /\ \A m \in member_rows(members', cid, u) :
                    /\ m.has_paid = (a = "mark")
                    /\ (m.paid_at # NoTime) = (a = "mark")
              /\ members' \ member_rows(members', cid, u) =
                 members \ member_rows(members, cid, u)]_vars

C9_Witness ==
    /\ ret.op = "pay" /\ ret.ok
    /\ \E m \in members : ~m.has_paid /\ m.paid_at = NoTime
    /\ \E m \in members : m.has_paid /\ m.paid_at # NoTime

(* C10: /close by a coordinator: with no active campaign close_active_campaign *)
(* returns FALSE and changes nothing; otherwise it returns TRUE, clears        *)
(* is_active on the active campaign with the greatest id and on no other, and  *)
(* leaves every membership row unchanged.                                      *)
C10_CloseActive ==
    [][\A u \in UserIds :
          (is_financier(u) /\ close_handler(u)) =>
              /\ members' = members
              /\ ret'.op = "close" /\ ret'.status = "done"
              /\ IF ActiveCampaigns = {}
                 THEN ret'.ok = FALSE /\ campaigns' = campaigns
                 ELSE /\ ret'.ok = TRUE
                      /\ \E c \in ActiveCampaigns :
                            /\ \A d \in ActiveCampaigns : d <= c
                            /\ campaigns' = [campaigns EXCEPT ![c].is_active = FALSE]]_vars

C10_Witness ==
    /\ ret.op = "close" /\ ret.status = "done" /\ ret.ok
    /\ \E c \in DOMAIN campaigns : \E d \in DOMAIN campaigns :
          c < d /\ campaigns[c].is_active /\ ~campaigns[d].is_active

(* C11 as written: in the state a successful close_active_campaign leaves    *)
(* (no campaign created since), get_active_campaign returns none.  Violated  *)
(* when two campaigns were active: the older one is still returned.          *)
C11_CloseLeavesNoneActive ==
    (ret.op = "close" /\ ret.status = "done" /\ ret.ok) =>
        get_active_campaign(campaigns) = NoCampaign

(* C12: closed is terminal: no step deletes a campaign row, and a campaign   *)
(* whose is_active is FALSE has is_active FALSE after every step.            *)
C12_ClosedIsTerminal ==
    [][\A c \in DOMAIN campaigns :
          /\ c \in DOMAIN campaigns'
          /\ (~campaigns[c].is_active => ~campaigns'[c].is_active)]_vars

C12_Witness ==
    /\ \E c \in DOMAIN campaigns : \E d \in DOMAIN campaigns :
          c < d /\ ~campaigns[c].is_active /\ ~campaigns[d].is_active
    /\ ret.op = "close" /\ ret.status = "done" /\ ~ret.ok

(* C13: get_active_campaign returns none exactly when no campaign is active; *)
(* otherwise it returns an active campaign whose id is the greatest among    *)
(* the active ones; it never returns an inactive campaign.                   *)
C13_GetActive ==
    LET r == get_active_campaign(campaigns)
    IN  /\ (r = NoCampaign) = (ActiveCampaigns = {})
        /\ r # NoCampaign =>
              /\ r \in ActiveCampaigns
              /\ \A d \in ActiveCampaigns : d <= r

C13_Witness ==
    /\ Cardinality(ActiveCampaigns) = 2
    /\ get_active_campaign(campaigns) = MaxCampaigns

(* C18: the fourth component of user_status(u) is the per_user_amount of the *)
(* active campaign (the one get_active_campaign resolves) exactly when that  *)
(* campaign exists and u has a membership row in it; otherwise it is none,   *)
(* also for the campaign's creator and for users registered after creation.  *)
C18_StatusShare ==
    \A u \in UserIds :
        LET st == user_status(users, campaigns, members, u)
        IN  IF /\ ActiveCampaigns # {}
               /\ \E c \in ActiveCampaigns :
                     /\ \A d \in ActiveCampaigns : d <= c
                     /\ u \in KeysOf(members, c)
            THEN \E c \in ActiveCampaigns :
                     /\ \A d \in ActiveCampaigns : d <= c
                     /\ st.per_user = Some(campaigns[c].per_user_amount)
            ELSE st.per_user = Nothing

C18_Witness ==
    \E c \in DOMAIN returned :
        /\ ActiveCampaigns = {c}
        /\ \E d \in DOMAIN campaigns : d < c /\ returned[c].creator \in KeysOf(members, d)
        /\ user_status(users, campaigns, members, returned[c].creator).per_user = Nothing
        /\ \E u \in DOMAIN users :
              /\ u \notin returned[c].roster
              /\ user_status(users, campaigns, members, u).per_user = Nothing
        /\ \E u \in KeysOf(members, c) :
              user_status(users, campaigns, members, u).per_user = Some(0)

(* C19 as written: for every registered user u, user_status(u) returns u's   *)
(* User record whether or not a campaign is active, so /status and /help     *)
(* report a registered coordinator as coordinator in every state.  Violated  *)
(* whenever no campaign is active: user_status returns none for the user.    *)
C19_StatusReturnsUser ==
    \A u \in DOMAIN users :
        /\ user_status(users, campaigns, members, u).user = Some(users[u])
        /\ users[u].is_financier =>
              /\ status_role(users, campaigns, members, u) = "financier"
              /\ help_is_financier(users, campaigns, members, u)

(* C20: a payment callback for an existing membership of an inactive         *)
(* campaign answers success and leaves the row with has_paid = mark and      *)
(* paid_at set iff mark, as for an active campaign.                          *)
C20_ToggleAfterClose ==
    [][\A u \in UserIds, cid \in CallbackCampaignIds, a \in CallbackActions, now \in Times :
          (/\ cid \in DOMAIN campaigns
           /\ ~campaigns[cid].is_active
           /\ member_rows(members, cid, u) # {}
           /\ handle_payment_callback(u, cid, a, now)) =>
              /\ ret'.op = "pay" /\ ret'.ok = TRUE
              /\ member_rows(members', cid, u) # {}
              /\ \A m \in member_rows(members', cid, u) :
                    /\ m.has_paid = (a = "mark")
                    /\ m.paid_at = (IF a = "mark" THEN now ELSE NoTime)]_vars

C20_Witness ==
    /\ ret.op = "pay" /\ ret.ok
    /\ campaigns # <<>>
    /\ ActiveCampaigns = {}
    /\ \E m \in members : m.has_paid
    /\ \E m \in members : ~m.has_paid

(* C14 as written: once a user's full_name is non-empty, no step replaces it *)
(* by a blank, absent or different value.  Violated by process_name, which   *)
(* overwrites the name of a user who is still in awaiting_name.              *)
C14_NameWriteOnce ==
    [][\A u \in DOMAIN users :
          Truthy(users[u].full_name) =>
              (u \in DOMAIN users' /\ users'[u].full_name = users[u].full_name)]_vars

(* C15: a /start of an existing user (upsert_user) sets username to the      *)
(* supplied value and changes full_name only when the stored value is        *)
(* empty/absent and the supplied one is non-empty, to the supplied one.      *)
C15_UpsertExisting ==
    [][\A u \in DOMAIN users, un \in RosterUsernames, fn \in RosterNames,
          fins \in FinancierConfigs :
          start_handler_cfg(u, un, fn, fins) =>
              /\ users'[u].username = un
              /\ users'[u].full_name =
                    (IF ~Truthy(users[u].full_name) /\ Truthy(fn)
                     THEN fn ELSE users[u].full_name)
              /\ \A v \in DOMAIN users : v # u => users'[v] = users[v]]_vars

C15_Witness ==
    /\ ret.op = "start"
    /\ ret.full_name = "Y"
    /\ users[ret.uid].full_name = "X"
    /\ users[ret.uid].username = NoneVal

(* C16: a user is created with is_financier = (id in the supplied            *)
(* coordinator set); no step clears is_financier once it is TRUE, also a     *)
(* /start whose coordinator set no longer holds the id.                      *)
C16_CoordinatorMonotone ==
    [][/\ \A u \in DOMAIN users :
             u \in DOMAIN users' /\ (users[u].is_financier => users'[u].is_financier)
       /\ \A u \in UserIds \ DOMAIN users, un \in RosterUsernames, fn \in RosterNames,
             fins \in FinancierConfigs :
             start_handler_cfg(u, un, fn, fins) =>
                 users'[u].is_financier = (u \in fins)]_vars

C16_Witness ==
    /\ ret.op = "start"
    /\ ~ret.listed
    /\ users[ret.uid].is_financier

(* C17: campaign_stats returns (total, paid, unpaid) with                  *)
(* paid + unpaid = total and 0 <= paid <= total, also when payments are    *)
(* toggled between its two count queries; for an id with no campaign it    *)
(* returns (0, 0, 0).                                                      *)
C17_StatsConsistent ==
    /\ (ret.op = "dash" /\ ret.status = "shown") =>
          /\ ret.paid_count + ret.unpaid_count = ret.total
          /\ 0 <= ret.paid_count
          /\ ret.paid_count <= ret.total
    /\ task.pc = "count_paid" =>
          LET paid == count_paid(members, task.camp_id)
          IN  0 <= paid /\ paid <= task.total
    /\ \A cid \in CallbackCampaignIds :
          cid \notin DOMAIN campaigns => campaign_stats(members, cid) = <<0, 0, 0>>

(* a summary whose paid count differs from the one the store held at the   *)
(* first query: a toggle ran between the two queries                       *)
C17_Witness ==
    /\ ret.op = "dash"
    /\ ret.status = "shown"
    /\ ret.paid_count /= ret.paid_then
    /\ ret.total = 2
    /\ Cardinality(DOMAIN campaigns) = 2
    /\ \E cid \in CallbackCampaignIds : cid \notin DOMAIN campaigns
(* C27: when the handlers run one after another, every membership row has  *)
(* a payment time exactly when it is marked paid.                          *)
C27_PaidAtIffPaid ==
    \A m \in members : m.has_paid <=> (m.paid_at # NoTime)

(* a member has marked and another has unmarked after marking *)
C27_Witness ==
    /\ ret.op = "pay"
    /\ ret.ok
    /\ \E m \in members : m.has_paid /\ m.paid_at \in Times
    /\ \E m \in members : ~m.has_paid /\ m.paid_at = NoTime
    /\ \E c \in DOMAIN campaigns : AllPaid(c) /\ RowsOf(members, c) # {}

(* C28: a payment callback of user u for campaign c changes no row but the *)
(* membership (c, u): the other memberships, the campaigns and the users   *)
(* are as before.                                                          *)
C28_ToggleFrame ==
    [][\A u \in UserIds, cid \in CallbackCampaignIds, a \in CallbackActions,
         now \in Times :
          handle_payment_callback(u, cid, a, now) =>
             /\ users' = users
             /\ campaigns' = campaigns
             /\ {m \in members' : m.campaign_id # cid \/ m.user_id # u}
                  = {m \in members : m.campaign_id # cid \/ m.user_id # u}
             /\ Cardinality(member_rows(members', cid, u))
                  = Cardinality(member_rows(members, cid, u))]_vars

(* a callback has succeeded in a campaign where another member's row       *)
(* differs from the caller's, with a second campaign present               *)
C28_Witness ==
    /\ ret.op = "pay"
    /\ ret.ok
    /\ \E c \in DOMAIN campaigns :
          /\ \E m \in RowsOf(members, c) : m.has_paid
          /\ \E m \in RowsOf(members, c) : ~m.has_paid
    /\ \E c, d \in DOMAIN campaigns :
          c # d /\ RowsOf(members, c) # {} /\ RowsOf(members, d) # {}

(* C25: /new creates and /close closes a campaign only for a sender of     *)
(* the coordinator set; a /new or /close of any other sender changes no    *)
(* campaign and no membership row.                                         *)
C25_PrivilegeGate ==
    [][/\ \A u \in UserIds \ FINANCIERS :
            (\/ new_denied(u)
             \/ close_handler(u)
             \/ \E total \in Amounts, title \in Titles :
                   new_campaign_handler(u, total, title))
            => UNCHANGED <<campaigns, members>>
       /\ campaigns' # campaigns =>
            \E u \in FINANCIERS :
               \/ close_handler(u)
               \/ \E total \in Amounts, title \in Titles :
                     new_campaign_handler(u, total, title)]_vars

(* a sender outside the set was refused /close while a campaign was active *)
C25_Witness ==
    /\ ret.op = "close"
    /\ ret.status = "denied"
    /\ ActiveCampaigns # {}
    /\ members # {}
(* C22: in the notification loop of /new a failed send does not stop the   *)
(* loop: when the loop ends every identifier of the participant list has   *)
(* been attempted, in list order, and the sent count reported is at most   *)
(* the number of participants.                                             *)
C22_NotifyAll ==
    /\ (ret.op = "new" /\ ret.status = "notified") =>
          /\ ret.attempted = ret.user_ids
          /\ ret.sent <= Len(ret.user_ids)
          /\ ret.sent = Cardinality(ret.delivered)
    /\ task.pc = "notify" =>
          /\ task.attempted = SubSeq(task.user_ids, 1, task.i - 1)
          /\ task.sent <= Len(task.attempted)

(* the first send was throttled or failed and the second was delivered *)
C22_Witness ==
    /\ ret.op = "new"
    /\ ret.status = "notified"
    /\ Len(ret.user_ids) = 2
    /\ ret.user_ids[1] \notin ret.delivered
    /\ ret.user_ids[2] \in ret.delivered
    /\ ret.sent = 1

(* C23: a notification rejected with a retry-after signal is sent again    *)
(* after the wait, so a participant whose only failure is throttling has   *)
(* received the notification when the loop ends.                           *)
C23_ThrottledResent ==
    (ret.op = "new" /\ ret.status = "notified") =>
        ret.throttled \subseteq ret.delivered
(* C24: whatever argument text a coordinator sends with /new, a campaign   *)
(* is created only with an integer amount and a non-empty title.           *)
C24_WellFormedArgs ==
    \A c \in DOMAIN campaigns :
        /\ campaigns[c].total_amount \in Int
        /\ campaigns[c].title # <<>>
(* C26: a user enters awaiting_name only by a /start that leaves the user  *)
(* record without coordinator flag and without full name; in awaiting_name *)
(* any message other than /start (commands included) is stored as the full *)
(* name and returns the user to idle; /start in awaiting_name re-runs the   *)
(* registration and leaves awaiting_name set, also when a name is present.  *)
C26_NamePrompt ==
    [][/\ \A u \in UserIds :
            (fsm[u] = "idle" /\ fsm'[u] = "awaiting_name") =>
                /\ ret'.op = "start"
                /\ ret'.uid = u
                /\ ~users'[u].is_financier
                /\ ~Truthy(users'[u].full_name)
       /\ \A u \in UserIds, t \in Texts :
            process_name(u, t) =>
                /\ users'[u].full_name = strip(t)
                /\ fsm'[u] = "idle"
       /\ \A u \in UserIds, un \in RosterUsernames, fn \in RosterNames,
             fins \in FinancierConfigs :
            (fsm[u] = "awaiting_name" /\ start_handler_cfg(u, un, fn, fins)) =>
                /\ fsm'[u] = "awaiting_name"
                /\ users' = upsert_user(users, u, un, fn, fins)]_vars
(* C21: when two toggles of the same membership run concurrently, the row  *)
(* a toggle leaves at its commit is the outcome of one toggle alone: it is *)
(* paid with a payment time, or unpaid without one.                        *)
C21_ConcurrentToggles ==
    [][\A now \in Times :
          (task.pc = "toggle_commit" /\ toggle_commit(now)) =>
              \A m \in member_rows(members', task.cid, task.uid) :
                  \/ m.has_paid /\ m.paid_at \in Times
                  \/ ~m.has_paid /\ m.paid_at = NoTime]_vars
====
